---- MODULE Spec2Model ----
(***************************************************************************)
(* Brain-Arena: the countdown clock (TimerService), the quiz panel         *)
(* (QuizUIManager + QuizContainer3D), the input dispatcher                 *)
(* (InteractionManager), the session that wires them, and the backend's    *)
(* questions service (QuestionsService + QuestionsController).             *)
(*                                                                         *)
(* Time is counted in whole units: deltaSeconds and durations are          *)
(* integers, so the subtraction of TimerService.update is exact (the       *)
(* rounding of IEEE doubles is outside this model).                        *)
(***************************************************************************)
EXTENDS Integers, Sequences, FiniteSets, TLC

VARIABLES
    timer,        \* the TimerService object: its private fields
    events,       \* history: the callbacks the last call invoked, in order
    lastCall,     \* history: the last call, its argument and the timer before it
    expireCount,  \* history: onExpireCallback invocations since the last start()
    elapsed,      \* history: sum of deltaSeconds of running updates since start()
    cancelled,    \* history: stop()/reset() was called since the last start()
    ui,           \* the QuizUIManager object: its panel, the scene it adds it to
    paints,       \* history: what the last call or event painted on the canvas
    panelCall,    \* history: the last QuizUIManager call and the manager before it
    session,      \* the session controller's state: Idle, Showing or Answered
    question,     \* the question the session is showing (absent when Idle)
    answeredBy,   \* history: what answered the question: selection or expiry
    sessionCall,  \* history: the last session event and the session before it
    hit,          \* history: the getSelectedOptionIndex call of the last step
    im,           \* the InteractionManager object: its handler, objects, listeners
    selections,   \* history: the handler invocations made in the last step
    inputCall,    \* history: the InteractionManager call or event of the last step,
                  \* kept where the dispatcher is driven by itself
    db,           \* the backend's stored questions with their translations
    reply         \* history: the last backend request and the response to it

timerVars == <<timer, events, lastCall, expireCount, elapsed, cancelled>>

panelVars == <<ui, paints, panelCall>>

sessionVars == <<session, question, answeredBy, sessionCall>>

hitVars == <<hit>>

inputVars == <<im, selections, inputCall>>

dispatchVars == <<im, selections>>

backendVars == <<db, reply>>

vars == <<timer, events, lastCall, expireCount, elapsed, cancelled,
          ui, paints, panelCall, session, question, answeredBy, sessionCall,
          hit, im, selections, inputCall, db, reply>>

----------------------------------------------------------------------------
(* Bounds of the model *)

MaxDuration == 10     \* start(duration) is tried for -1, 0 and 1..MaxDuration
MaxDelta == 3         \* update(deltaSeconds) is tried for 1..MaxDelta
MaxCount == 2         \* expireCount saturates here
MaxPanels == 2        \* QuizContainer3D objects constructed in one run
MaxIndex == 3         \* setFeedback indexes are tried for -1..MaxIndex

(* Program constants *)

DefaultDuration == 20 \* start(duration: number = 20), maxTime = 20
AudioThreshold == 9   \* if (this.timeRemaining < 9 && !this.audioStarted)
CanvasSize == 1024    \* canvas.width = canvas.height = 1024
CanvasHalf == 512     \* (localPoint.x + 1) * 512
startY == 450         \* const startY = 450
optionHeight == 100   \* const optionHeight = 100
optionSpacing == 20   \* const optionSpacing = 20
OptionMargin == 160   \* const optionWidth = 1024 - 160

(* Lengths are counted in units of 1/2560 of a world unit, so that the panel's
   position (0, 1.8, -2.5), the plane's half side 0.8 and the canvas pixels
   are whole numbers; a canvas coordinate is kept multiplied by CanvasScale. *)
Unit == 5 * CanvasHalf
CanvasScale == Unit \div CanvasHalf

(* No countdown of the model lasts longer: the time counted since a start()
   stops there. *)
MaxElapsed == MaxDuration + MaxDelta

Durations == {-1, 0} \cup (1..MaxDuration)
Deltas == 1..MaxDelta
TickBehaviours == {"noop", "stop", "reset"}   \* what a tick listener may call back

Max(a, b) == IF a >= b THEN a ELSE b
Min(a, b) == IF a <= b THEN a ELSE b

----------------------------------------------------------------------------
(* TimerService *)

TimerInit ==
    [timeRemaining |-> 0, maxTime |-> DefaultDuration, isRunning |-> FALSE,
     audioStarted |-> FALSE, audioPlaying |-> FALSE,
     onTickCallback |-> FALSE, onExpireCallback |-> FALSE]

resetClockAudio(t) ==
    [t EXCEPT !.audioPlaying = FALSE, !.audioStarted = FALSE]

(* Variant of start: a countdown already running keeps its remaining time. *)
start_keepsCountdown(t, duration) ==
    [t EXCEPT !.maxTime = duration,
              !.timeRemaining = IF t.isRunning THEN t.timeRemaining ELSE duration,
              !.isRunning = TRUE, !.audioStarted = FALSE]

start(t, duration) ==
    [t EXCEPT !.maxTime = duration, !.timeRemaining = duration,
              !.isRunning = TRUE, !.audioStarted = FALSE]

(* Variant of stop: the audio is reset, isRunning is left as it is. *)
stop_keepsRunning(t) ==
    resetClockAudio(t)

stop(t) ==
    resetClockAudio([t EXCEPT !.isRunning = FALSE])

reset(t) ==
    resetClockAudio([t EXCEPT !.timeRemaining = t.maxTime, !.isRunning = FALSE])

onTick(t) == [t EXCEPT !.onTickCallback = TRUE]

onExpire(t) == [t EXCEPT !.onExpireCallback = TRUE]

getTimeRemaining(t) == t.timeRemaining

isActive(t) == t.isRunning

(* The listener registered with onTick runs inside update and may call back
   into the timer. *)
tickListener(t, behaviour) ==
    CASE behaviour = "stop" -> stop(t)
      [] behaviour = "reset" -> reset(t)
      [] OTHER -> t

(* Variant of tickValue: the remaining time handed over unclamped. *)
tickValue_unclamped(t) == t.timeRemaining

(* The value update hands to the tick listener. *)
tickValue(t) == Max(0, t.timeRemaining)

(* What a callback sees: its argument and the getters' answers while it runs. *)
Event(kind, value, t, did) ==
    [kind |-> kind, value |-> value, remaining |-> getTimeRemaining(t),
     maxTime |-> t.maxTime, active |-> isActive(t), did |-> did]

(* Variant of updateStopped: update without its early return. *)
updateStopped_never(t) == FALSE

(* if (!this.isRunning) return; *)
updateStopped(t) == ~t.isRunning

(* Variant of updateExpired: < in place of <=. *)
updateExpired_strict(t) == t.timeRemaining < 0

(* if (this.timeRemaining <= 0) *)
updateExpired(t) == t.timeRemaining <= 0

(* Variant of expire: the timer is left running at expiry. *)
expire_keepsRunning(t) == resetClockAudio([t EXCEPT !.timeRemaining = 0])

(* The body of the expiry branch before the callback. *)
expire(t) == resetClockAudio([t EXCEPT !.timeRemaining = 0, !.isRunning = FALSE])

(* Variant of update: the frame passes and the countdown does not move. *)
update_idle(t, deltaSeconds, behaviour) == [timer |-> t, events |-> <<>>]

(* update(deltaSeconds): the new timer and the callbacks invoked, in order. *)
update(t, deltaSeconds, behaviour) ==
    IF updateStopped(t) THEN [timer |-> t, events |-> <<>>]
    ELSE
      LET t1 == [t EXCEPT !.timeRemaining = t.timeRemaining - deltaSeconds]
          ev1 == IF t1.onTickCallback
                 THEN <<Event("tick", tickValue(t1), t1, behaviour)>>
                 ELSE <<>>
          t2 == IF t1.onTickCallback THEN tickListener(t1, behaviour) ELSE t1
          t3 == IF t2.timeRemaining < AudioThreshold /\ ~t2.audioStarted
                THEN [t2 EXCEPT !.audioStarted = TRUE, !.audioPlaying = TRUE]
                ELSE t2
          t4 == expire(t3)
      IN  IF updateExpired(t3)
          THEN [timer |-> t4,
                events |-> IF t4.onExpireCallback
                           THEN ev1 \o <<Event("expire", 0, t4, "noop")>>
                           ELSE ev1]
          ELSE [timer |-> t3, events |-> ev1]

Kinds(evs) == {evs[i].kind : i \in DOMAIN evs}

(* A stop() or reset() made by the tick listener during the call. *)
ListenerCancelled(evs) ==
    \E i \in DOMAIN evs : evs[i].kind = "tick" /\ evs[i].did \in {"stop", "reset"}

Call(op, arg) == [op |-> op, arg |-> arg, pre |-> timer]

----------------------------------------------------------------------------
(* QuizContainer3D: the panel.  An optional value (selectedIndex?: number,
   currentData | null, quizContainer | null) is the empty set when absent and
   a singleton when present. *)

The(S) == CHOOSE x \in S : TRUE

Questions ==
    { [text |-> "q1", options |-> <<"a", "b", "c", "d">>],
      [text |-> "q2", options |-> <<"e", "f", "g", "h">>],
      [text |-> "q3", options |-> <<"i", "j", "k">>] }

Indexes == 0..MaxIndex
SelectedIndexes == {-1} \cup Indexes
CorrectIndexes == {{}} \cup {{i} : i \in Indexes}

(* A paint of a panel's canvas that ran to its end; both paints end with
   this.texture.needsUpdate = true. *)
Paint(kind, id, data) ==
    [kind |-> kind, panel |-> id, data |-> data, needsUpdate |-> TRUE]

(* drawStaticBackground: nothing happens without a 2d context. *)
drawStaticBackground(p) ==
    IF ~p.hasContext THEN [panel |-> p, paints |-> <<>>]
    ELSE [panel |-> [p EXCEPT !.isBackgroundDrawn = TRUE],
          paints |-> <<Paint("static", p.id, {})>>]

(* new QuizContainer3D(): the constructor draws the static background. *)
NewPanel(id, hasContext) ==
    drawStaticBackground(
        [id |-> id, hasContext |-> hasContext, currentData |-> {},
         isBackgroundDrawn |-> FALSE])

(* Variant of redrawDynamicContent: it paints whenever there is data. *)
redrawDynamicContent_unguarded(p) ==
    IF p.currentData = {} THEN <<>>
    ELSE <<Paint("dynamic", p.id, p.currentData)>>

(* redrawDynamicContent: the paints it makes (it changes no field). *)
redrawDynamicContent(p) ==
    IF p.currentData = {} \/ ~p.isBackgroundDrawn THEN <<>>
    ELSE IF ~p.hasContext THEN <<>>
    ELSE <<Paint("dynamic", p.id, p.currentData)>>

redraw(p) ==
    LET s == drawStaticBackground(p)
    IN  [panel |-> s.panel, paints |-> s.paints \o redrawDynamicContent(s.panel)]

updateQuiz(p, data, fullRedraw) ==
    LET p1 == [p EXCEPT !.currentData = {data}]
    IN  IF fullRedraw THEN redraw(p1)
        ELSE [panel |-> p1, paints |-> redrawDynamicContent(p1)]

(* Variant of optionColors: the correct option is highlighted only when it is
   the selected one. *)
optionColors_correctIfSelected(d, index) ==
    LET neutral == [bgStart |-> "#9B5DFF", bgEnd |-> "#7B3FDF",
                    borderColor |-> "#D9A500", textColor |-> "#FFFFFF"]
        c1 == IF d.selectedIndex = {index}
              THEN [neutral EXCEPT !.bgStart = "#6B25C4", !.borderColor = "#FFC93C"]
              ELSE neutral
    IN  IF d.correctIndex = {} THEN c1
        ELSE IF d.correctIndex = {index} /\ d.selectedIndex = {index}
             THEN [bgStart |-> "#00FFBF", bgEnd |-> "#00CC99",
                   borderColor |-> "#00CC99", textColor |-> "#141414"]
        ELSE IF d.selectedIndex = {index}
             THEN [c1 EXCEPT !.bgStart = "#FF2B6D", !.bgEnd = "#CC2255",
                             !.borderColor = "#CC2255"]
        ELSE c1

(* Variant of optionColors: a wrong selection keeps the border of the
   pending selection. *)
optionColors_keepsSelectedBorder(d, index) ==
    LET neutral == [bgStart |-> "#9B5DFF", bgEnd |-> "#7B3FDF",
                    borderColor |-> "#D9A500", textColor |-> "#FFFFFF"]
        c1 == IF d.selectedIndex = {index}
              THEN [neutral EXCEPT !.bgStart = "#6B25C4", !.borderColor = "#FFC93C"]
              ELSE neutral
    IN  IF d.correctIndex = {} THEN c1
        ELSE IF d.correctIndex = {index}
             THEN [bgStart |-> "#00FFBF", bgEnd |-> "#00CC99",
                   borderColor |-> "#00CC99", textColor |-> "#141414"]
        ELSE IF d.selectedIndex = {index}
             THEN [c1 EXCEPT !.bgStart = "#FF2B6D", !.bgEnd = "#CC2255"]
        ELSE c1

(* drawOptions: the colours of option index under data d. *)
optionColors(d, index) ==
    LET neutral == [bgStart |-> "#9B5DFF", bgEnd |-> "#7B3FDF",
                    borderColor |-> "#D9A500", textColor |-> "#FFFFFF"]
        c1 == IF d.selectedIndex = {index}
              THEN [neutral EXCEPT !.bgStart = "#6B25C4", !.borderColor = "#FFC93C"]
              ELSE neutral
    IN  IF d.correctIndex = {} THEN c1
        ELSE IF d.correctIndex = {index}
             THEN [bgStart |-> "#00FFBF", bgEnd |-> "#00CC99",
                   borderColor |-> "#00CC99", textColor |-> "#141414"]
        ELSE IF d.selectedIndex = {index}
             THEN [c1 EXCEPT !.bgStart = "#FF2B6D", !.bgEnd = "#CC2255",
                             !.borderColor = "#CC2255"]
        ELSE c1

----------------------------------------------------------------------------
(* QuizUIManager *)

UIInit == [quizContainer |-> {}, scene |-> {}, disposed |-> {}, created |-> 0]

Data(text, options) ==
    [question |-> text, options |-> options, selectedIndex |-> {}, correctIndex |-> {}]

(* hasContext: whether canvas.getContext('2d') of a panel constructed by this
   call yields a context. *)
showQuestion(m, text, options, hasContext) ==
    LET fresh == m.quizContainer = {}
        made == NewPanel(m.created + 1, hasContext)
        p == IF fresh THEN made.panel ELSE The(m.quizContainer)
        m1 == IF fresh
              THEN [m EXCEPT !.scene = @ \cup {p.id}, !.created = @ + 1]
              ELSE m
        r == updateQuiz(p, Data(text, options), FALSE)
    IN  [ui |-> [m1 EXCEPT !.quizContainer = {r.panel}],
         paints |-> (IF fresh THEN made.paints ELSE <<>>) \o r.paints]

(* Variant of setFeedback: the new data holds the two indexes and the
   question, and no options. *)
setFeedback_dropsOptions(m, selectedIndex, correctIndex) ==
    IF m.quizContainer = {} THEN [ui |-> m, paints |-> <<>>]
    ELSE LET p == The(m.quizContainer)
         IN  IF p.currentData = {} THEN [ui |-> m, paints |-> <<>>]
             ELSE LET r == updateQuiz(p,
                               [The(p.currentData) EXCEPT
                                   !.options = <<>>,
                                   !.selectedIndex = {selectedIndex},
                                   !.correctIndex = correctIndex],
                               FALSE)
                  IN  [ui |-> [m EXCEPT !.quizContainer = {r.panel}],
                       paints |-> r.paints]

(* Variant of setFeedback: with no panel shown it makes one. *)
setFeedback_makesPanel(m, selectedIndex, correctIndex) ==
    LET shown == IF m.quizContainer = {}
                 THEN showQuestion(m, "", <<>>, TRUE)
                 ELSE [ui |-> m, paints |-> <<>>]
        p == The(shown.ui.quizContainer)
        r == updateQuiz(p,
                 [The(p.currentData) EXCEPT
                     !.selectedIndex = {selectedIndex},
                     !.correctIndex = correctIndex],
                 FALSE)
    IN  [ui |-> [shown.ui EXCEPT !.quizContainer = {r.panel}],
         paints |-> shown.paints \o r.paints]

setFeedback(m, selectedIndex, correctIndex) ==
    IF m.quizContainer = {} THEN [ui |-> m, paints |-> <<>>]
    ELSE LET p == The(m.quizContainer)
         IN  IF p.currentData = {} THEN [ui |-> m, paints |-> <<>>]
             ELSE LET r == updateQuiz(p,
                               [The(p.currentData) EXCEPT
                                   !.selectedIndex = {selectedIndex},
                                   !.correctIndex = correctIndex],
                               FALSE)
                  IN  [ui |-> [m EXCEPT !.quizContainer = {r.panel}],
                       paints |-> r.paints]

(* Variant of hideAll: the panel is disposed and forgotten, and left in the
   scene. *)
hideAll_leavesInScene(m) ==
    IF m.quizContainer = {} THEN m
    ELSE LET p == The(m.quizContainer)
         IN  [m EXCEPT !.disposed = @ \cup {p.id}, !.quizContainer = {}]

(* Variant of hideAll: the panel is left where it is. *)
hideAll_keepsPanel(m) == m

hideAll(m) ==
    IF m.quizContainer = {} THEN m
    ELSE LET p == The(m.quizContainer)
         IN  [m EXCEPT !.scene = @ \ {p.id},
                       !.disposed = @ \cup {p.id},
                       !.quizContainer = {}]

(* An object of the scene: its kind and, for a panel, its number. *)
Object3D(kind, id) == [kind |-> kind, id |-> id]

(* Variant of getInteractiveObjects: the panel made last, hidden or not. *)
getInteractiveObjects_lastMade(m) ==
    IF m.created = 0 THEN <<>> ELSE <<Object3D("panel", m.created)>>

(* return this.quizContainer ? [this.quizContainer] : []; *)
getInteractiveObjects(m) ==
    IF m.quizContainer = {} THEN <<>>
    ELSE <<Object3D("panel", The(m.quizContainer).id)>>

(* this.position.set(0, 1.8, -2.5); the panel is not rotated or scaled. *)
PanelPosition == [x |-> 0, y |-> (18 * Unit) \div 10, z |-> 0 - (25 * Unit) \div 10]

(* new THREE.PlaneGeometry(1.6, 1.6): the plane reaches 0.8 from its centre. *)
PlaneHalf == (8 * Unit) \div 10

(* The plane shows the whole canvas: a step of one canvas pixel is
   PaintScale units on the plane. *)
PaintScale == (2 * PlaneHalf) \div CanvasSize

cornerRadius == 50    \* drawRoundedRect(ctx, optionX, y, optionWidth, optionHeight, 50)

(* drawOptions: whether the rounded rectangle of option index covers the
   panel-local point (lx, ly) of the plane.  The texture puts canvas pixel
   (0, 0) at the plane's upper left corner; px and py are the canvas
   coordinates multiplied by PaintScale. *)
optionPaintedAt(index, lx, ly) ==
    LET px == lx + PlaneHalf
        py == PlaneHalf - ly
        optionWidth == CanvasSize - OptionMargin
        optionX == PaintScale * ((CanvasSize - optionWidth) \div 2)
        y == PaintScale * (startY + index * (optionHeight + optionSpacing))
        r == PaintScale * cornerRadius
        right == optionX + PaintScale * optionWidth
        bottom == y + PaintScale * optionHeight
        cx == IF px < optionX + r THEN optionX + r
              ELSE IF px > right - r THEN right - r ELSE px
        cy == IF py < y + r THEN y + r
              ELSE IF py > bottom - r THEN bottom - r ELSE py
    IN  /\ px >= optionX /\ px <= right
        /\ py >= y /\ py <= bottom
        /\ (px - cx) * (px - cx) + (py - cy) * (py - cy) <= r * r

(* The option drawOptions paints under a point of the plane when the panel
   holds n options: its index, or -1 where no option is painted. *)
paintedOptionAt(n, point) ==
    LET lx == point.x - PanelPosition.x
        ly == point.y - PanelPosition.y
        painted == {i \in 0..(n - 1) : optionPaintedAt(i, lx, ly)}
    IN  IF painted = {} THEN -1 ELSE CHOOSE i \in painted : \A j \in painted : i >= j

worldToLocal(point) ==
    [x |-> point.x - PanelPosition.x, y |-> point.y - PanelPosition.y,
     z |-> point.z - PanelPosition.z]

(* Variant of optionY: the options laid out without the spacing. *)
optionY_noSpacing(i) == startY + i * optionHeight

(* Variant of optionY: the options are half an option's height apart. *)
optionY_halfStep(i) == startY + i * (optionHeight \div 2)

(* const optionY = startY + i * (optionHeight + optionSpacing) *)
optionY(i) == startY + i * (optionHeight + optionSpacing)

getSelectedOptionIndex(m, intersectionPoint) ==
    IF m.quizContainer = {} THEN -1
    ELSE IF The(m.quizContainer).currentData = {} THEN -1
    ELSE
      LET currentData == The(The(m.quizContainer).currentData)
          localPoint == worldToLocal(intersectionPoint)
          canvasX == localPoint.x + Unit          \* CanvasScale * (x + 1) * 512
          canvasY == Unit - localPoint.y          \* CanvasScale * (1 - y) * 512
          optionWidth == CanvasSize - OptionMargin
          optionX == (CanvasSize - optionWidth) \div 2
          hits == {i \in 0..(Len(currentData.options) - 1) :
                      /\ canvasY >= CanvasScale * optionY(i)
                      /\ canvasY <= CanvasScale * (optionY(i) + optionHeight)}
      IN  IF \/ canvasX < CanvasScale * optionX
             \/ canvasX > CanvasScale * (optionX + optionWidth)
          THEN -1
          ELSE IF hits = {} THEN -1
          ELSE CHOOSE i \in hits : \A j \in hits : i <= j

(* Variant of intersectionPointAfter: worldToLocal applied to the caller's
   vector itself. *)
intersectionPointAfter_inPlace(m, intersectionPoint) ==
    IF m.quizContainer = {} THEN intersectionPoint
    ELSE IF The(m.quizContainer).currentData = {} THEN intersectionPoint
    ELSE worldToLocal(intersectionPoint)

(* The caller's vector after getSelectedOptionIndex: worldToLocal overwrites
   the vector it is given, and it is given intersectionPoint.clone(). *)
intersectionPointAfter(m, intersectionPoint) == intersectionPoint

(* The point of the panel's plane at local (lx, ly), in world coordinates. *)
PlanePoint(lx, ly) ==
    [x |-> PanelPosition.x + lx, y |-> PanelPosition.y + ly, z |-> PanelPosition.z]

(* The local y of the middle of option i's band as the hit-test lays it out. *)
BandMiddle(i) == Unit - CanvasScale * optionY(i) - (CanvasScale * optionHeight) \div 2

(* The panel data the manager reads through quizContainer['currentData']. *)
CurrentData(m) == UNION {p.currentData : p \in m.quizContainer}

PanelCall(op, a, b) == [op |-> op, a |-> a, b |-> b, pre |-> ui]

----------------------------------------------------------------------------
(* InteractionManager.  An object of the scene is a panel or the group, a
   THREE.Group whose one child is the mesh.  A ray is the
   sequence of its crossings, nearest first: where it crosses ("panel": the
   place of every QuizContainer3D, "mesh": the group's child), the point and
   the distance from the ray's origin. *)

Far == 10             \* this.raycaster.far = 10

IMInit ==
    [onSelectCallback |-> FALSE, interactiveObjects |-> <<>>,
     clickListener |-> TRUE, selectStartListeners |-> TRUE]

onObjectSelected(i) == [i EXCEPT !.onSelectCallback = TRUE]

setInteractiveObjects(i, objects) == [i EXCEPT !.interactiveObjects = objects]

(* dispose() removes the controllers' listeners; the window's click listener
   is an anonymous function that nothing removes. *)
dispose(i) == [i EXCEPT !.selectStartListeners = FALSE]

Crossing(at, point, distance) == [at |-> at, point |-> point, distance |-> distance]

RECURSIVE Concat(_)
Concat(ss) == IF ss = <<>> THEN <<>> ELSE Head(ss) \o Concat(Tail(ss))

(* Variant of intersectObject: a panel is met only in a recursive test. *)
intersectObject_recursiveOnly(object, recursive, crossing) ==
    IF recursive /\ (crossing.at = "mesh" <=> object.kind = "group")
    THEN <<[object |-> IF object.kind = "group" THEN Object3D("mesh", 0) ELSE object,
            point |-> crossing.point, distance |-> crossing.distance]>>
    ELSE <<>>

(* What a crossing meets of one listed object: a panel is a mesh without
   children; a group has no geometry of its own and its child is tested only
   in a recursive test.  dispose() of a panel frees its GPU resources and
   leaves its geometry, so a removed panel is met like a live one. *)
intersectObject(object, recursive, crossing) ==
    IF object.kind = "group"
    THEN IF recursive /\ crossing.at = "mesh"
         THEN <<[object |-> Object3D("mesh", 0), point |-> crossing.point,
                 distance |-> crossing.distance]>>
         ELSE <<>>
    ELSE IF crossing.at = "panel"
         THEN <<[object |-> object, point |-> crossing.point,
                 distance |-> crossing.distance]>>
         ELSE <<>>

(* Variant of intersectObjects: the intersections farthest first. *)
intersectObjects_farthestFirst(objects, recursive, ray) ==
    Concat([k \in DOMAIN ray |->
              LET crossing == ray[Len(ray) + 1 - k]
              IN  IF crossing.distance > Far THEN <<>>
                  ELSE Concat([j \in DOMAIN objects |->
                                 intersectObject(objects[j], recursive, crossing)])])

(* raycaster.intersectObjects(objects, recursive): the intersections within
   far, sorted by distance (objects at one distance in the order listed). *)
intersectObjects(objects, recursive, ray) ==
    Concat([k \in DOMAIN ray |->
              IF ray[k].distance > Far THEN <<>>
              ELSE Concat([j \in DOMAIN objects |->
                             intersectObject(objects[j], recursive, ray[k])])])

(* checkIntersection: the invocations of the handler it makes, in order. *)
checkIntersection(i, objects, recursive, ray) ==
    IF Len(objects) = 0 THEN <<>>
    ELSE LET intersects == intersectObjects(objects, recursive, ray)
         IN  IF Len(intersects) > 0 /\ i.onSelectCallback
             THEN <<[object |-> intersects[1].object, point |-> intersects[1].point]>>
             ELSE <<>>

(* The window's click listener. *)
click(i, ray) == checkIntersection(i, i.interactiveObjects, TRUE, ray)

(* The controllers' selectstart listener. *)
onSelectStart(i, ray) == checkIntersection(i, i.interactiveObjects, FALSE, ray)

(* What an input event of a device makes the handler receive. *)
deliver(i, device, ray) ==
    IF device = "pointer"
    THEN IF i.clickListener THEN click(i, ray) ELSE <<>>
    ELSE IF i.selectStartListeners THEN onSelectStart(i, ray) ELSE <<>>

Devices == {"pointer", "controller"}

InputCall(op, device, ray) == [op |-> op, device |-> device, ray |-> ray]

----------------------------------------------------------------------------
(* The calls a client of QuizUIManager can make *)

PanelInit ==
    /\ ui = UIInit
    /\ paints = <<>>
    /\ panelCall = [op |-> "new", a |-> 0, b |-> {}, pre |-> UIInit]

ShowQuestion(q, hasContext) ==
    /\ ui.quizContainer = {} => ui.created < MaxPanels
    /\ LET r == showQuestion(ui, q.text, q.options, hasContext)
       IN  /\ ui' = r.ui
           /\ paints' = r.paints
    /\ panelCall' = PanelCall("showQuestion", 0, {})

SetFeedback(selectedIndex, correctIndex) ==
    /\ LET r == setFeedback(ui, selectedIndex, correctIndex)
       IN  /\ ui' = r.ui
           /\ paints' = r.paints
    /\ panelCall' = PanelCall("setFeedback", selectedIndex, correctIndex)

HideAll ==
    /\ ui' = hideAll(ui)
    /\ paints' = <<>>
    /\ panelCall' = PanelCall("hideAll", 0, {})

HitInit == hit = {}

(* A step that does not call getSelectedOptionIndex. *)
NoHit == hit' = {}

(* getSelectedOptionIndex(intersectionPoint): it assigns no field. *)
HitTest(point) ==
    /\ hit' = {[point |-> point,
                index |-> getSelectedOptionIndex(ui, point),
                after |-> intersectionPointAfter(ui, point),
                options |-> {Len(d.options) : d \in CurrentData(ui)}]}
    /\ paints' = <<>>
    /\ panelCall' = PanelCall("getSelectedOptionIndex", 0, {})
    /\ UNCHANGED ui

----------------------------------------------------------------------------
(* The calls a client of InteractionManager can make, and the input events *)

InputInit ==
    /\ im = IMInit
    /\ selections = <<>>
    /\ inputCall = InputCall("none", "none", <<>>)

(* A step that reaches InteractionManager neither by a call nor by an event. *)
NoInput ==
    /\ selections' = <<>>
    /\ UNCHANGED im

OnObjectSelected ==
    /\ im' = onObjectSelected(im)
    /\ selections' = <<>>

SetInteractiveObjects(objects) ==
    /\ im' = setInteractiveObjects(im, objects)
    /\ selections' = <<>>

Dispose ==
    /\ im' = dispose(im)
    /\ selections' = <<>>

(* A click on the window. *)
Click(ray) ==
    /\ selections' = deliver(im, "pointer", ray)
    /\ UNCHANGED im

(* A selectstart event of a controller. *)
SelectStart(ray) ==
    /\ selections' = deliver(im, "controller", ray)
    /\ UNCHANGED im

----------------------------------------------------------------------------
(* The backend: QuestionsService over its two repositories, and the
   QuestionsController in front of it.  db is the sequence of the stored
   questions in the order of their generated ids; a question carries its
   translations.  An optional field (category?, imageUrl?, language?) is the
   empty set when absent and a singleton when present. *)

MaxQuestions == 2     \* questions stored in one run

MaxTranslations == 2  \* translations of one question

Ok(body) == [status |-> "ok", body |-> body]

NotFoundException(message) == [status |-> "NotFound", body |-> message]

BadRequestException(message) == [status |-> "BadRequest", body |-> message]

(* language: string = 'it' and dto.language || 'it' *)
languageOrDefault(language) == IF language = {} THEN "it" ELSE The(language)

(* The translations of a question in a language, in stored order. *)
translationsIn(entity, language) ==
    SelectSeq(entity.translations, LAMBDA t : t.language = language)

(* Variant of mapToPublicDto: the translation's correctAnswer is copied too. *)
mapToPublicDto_withAnswer(entity, language) ==
    LET found == translationsIn(entity, language)
    IN  IF found = <<>>
        THEN NotFoundException("Translation not found for language")
        ELSE Ok([id |-> entity.id, text |-> found[1].text,
                 options |-> found[1].options, difficulty |-> entity.difficulty,
                 category |-> entity.category, imageUrl |-> entity.imageUrl,
                 language |-> found[1].language,
                 correctAnswer |-> found[1].correctAnswer])

mapToPublicDto(entity, language) ==
    LET found == translationsIn(entity, language)
    IN  IF found = <<>>
        THEN NotFoundException("Translation not found for language")
        ELSE Ok([id |-> entity.id, text |-> found[1].text,
                 options |-> found[1].options, difficulty |-> entity.difficulty,
                 category |-> entity.category, imageUrl |-> entity.imageUrl,
                 language |-> found[1].language])

(* findAll: the questions with a translation in the language, each mapped;
   a failed mapping fails the call. *)
findAll(d, language) ==
    LET lang == languageOrDefault(language)
        questions == SelectSeq(d, LAMBDA q : translationsIn(q, lang) # <<>>)
        mapped == [k \in DOMAIN questions |-> mapToPublicDto(questions[k], lang)]
    IN  IF \E k \in DOMAIN mapped : mapped[k].status # "ok"
        THEN mapped[CHOOSE k \in DOMAIN mapped : mapped[k].status # "ok"]
        ELSE Ok([k \in DOMAIN mapped |-> mapped[k].body])

(* getRandom: the responses it can give; ORDER BY RANDOM() LIMIT 1 picks any
   translation in the language. *)
getRandom(d, language) ==
    LET lang == languageOrDefault(language)
        picks == {<<q, k>> \in (DOMAIN d) \X (1..MaxTranslations) :
                     /\ k \in DOMAIN d[q].translations
                     /\ d[q].translations[k].language = lang}
    IN  IF picks = {}
        THEN {NotFoundException("No questions available in language")}
        ELSE {Ok([id |-> d[pick[1]].id,
                  text |-> d[pick[1]].translations[pick[2]].text,
                  options |-> d[pick[1]].translations[pick[2]].options,
                  difficulty |-> d[pick[1]].difficulty,
                  category |-> d[pick[1]].category,
                  imageUrl |-> d[pick[1]].imageUrl,
                  language |-> d[pick[1]].translations[pick[2]].language]) :
                 pick \in picks}

(* create: the question saved with the next generated id. *)
create(d, createDto) ==
    Append(d, [id |-> Len(d) + 1, difficulty |-> createDto.difficulty,
               category |-> createDto.category, imageUrl |-> createDto.imageUrl,
               translations |->
                   [k \in DOMAIN createDto.translations |->
                       [language |-> createDto.translations[k].language,
                        text |-> createDto.translations[k].text,
                        options |-> createDto.translations[k].options,
                        correctAnswer |-> createDto.translations[k].correctAnswer]]])

(* Variant of answerMatches: any answer counts as correct. *)
answerMatches_always(selectedAnswer, translation) == TRUE

(* dto.selectedAnswer === translation.correctAnswer *)
answerMatches(selectedAnswer, translation) == selectedAnswer = translation.correctAnswer

(* QuestionsService.checkAnswer *)
checkAnswer(d, dto) ==
    LET lang == languageOrDefault(dto.language)
        found == {<<q, k>> \in (DOMAIN d) \X (1..MaxTranslations) :
                     /\ d[q].id = dto.questionId
                     /\ k \in DOMAIN d[q].translations
                     /\ d[q].translations[k].language = lang}
    IN  IF found = {} THEN NotFoundException("Question not found")
        ELSE LET pick == CHOOSE pick \in found : TRUE
             IN  Ok([isCorrect |->
                        answerMatches(dto.selectedAnswer, d[pick[1]].translations[pick[2]])])

(* QuestionsController.checkAnswer: an error of the service becomes a
   BadRequestException with the error's message. *)
controllerCheckAnswer(d, dto) ==
    LET r == checkAnswer(d, dto)
    IN  IF r.status = "ok" THEN r ELSE BadRequestException(r.body)

Request(op, request, response) ==
    [op |-> op, request |-> request, response |-> response, pre |-> db]

BackendInit ==
    /\ db = <<>>
    /\ reply = [op |-> "new", request |-> {}, response |-> Ok({}), pre |-> <<>>]

(* POST /questions *)
Create(createDto) ==
    /\ Len(db) < MaxQuestions
    /\ db' = create(db, createDto)
    /\ reply' = Request("create", createDto, Ok(create(db, createDto)[Len(db) + 1]))

(* GET /questions?lang= *)
FindAll(language) ==
    /\ reply' = Request("findAll", language, findAll(db, language))
    /\ UNCHANGED db

(* GET /questions/random?lang= *)
GetRandom(language) ==
    /\ \E response \in getRandom(db, language) :
          reply' = Request("getRandom", language, response)
    /\ UNCHANGED db

(* POST /questions/check *)
CheckAnswer(dto) ==
    /\ reply' = Request("checkAnswer", dto, controllerCheckAnswer(db, dto))
    /\ UNCHANGED db

----------------------------------------------------------------------------
(* The calls a client of TimerService can make *)

ClockInit ==
    /\ timer = TimerInit
    /\ events = <<>>
    /\ lastCall = [op |-> "new", arg |-> 0, pre |-> TimerInit]
    /\ expireCount = 0
    /\ elapsed = 0
    /\ cancelled = FALSE

IdleInit ==
    /\ session = "Idle"
    /\ question = {}
    /\ answeredBy = "none"
    /\ sessionCall = [op |-> "new", arg |-> 0,
                      pre |-> [session |-> "Idle", data |-> {}, answeredBy |-> "none"]]

Init == ClockInit /\ PanelInit /\ IdleInit /\ HitInit /\ InputInit /\ BackendInit

Start(duration) ==
    /\ timer' = start(timer, duration)
    /\ events' = <<>>
    /\ lastCall' = Call("start", duration)
    /\ expireCount' = 0
    /\ elapsed' = 0
    /\ cancelled' = FALSE

Stop ==
    /\ timer' = stop(timer)
    /\ events' = <<>>
    /\ lastCall' = Call("stop", 0)
    /\ cancelled' = TRUE
    /\ UNCHANGED <<expireCount, elapsed>>

Reset ==
    /\ timer' = reset(timer)
    /\ events' = <<>>
    /\ lastCall' = Call("reset", 0)
    /\ cancelled' = TRUE
    /\ UNCHANGED <<expireCount, elapsed>>

Update(deltaSeconds, behaviour) ==
    LET r == update(timer, deltaSeconds, behaviour)
    IN  /\ timer' = r.timer
        /\ events' = r.events
        /\ lastCall' = Call("update", deltaSeconds)
        /\ expireCount' = IF "expire" \in Kinds(r.events)
                          THEN Min(expireCount + 1, MaxCount)
                          ELSE expireCount
        /\ elapsed' = IF timer.isRunning THEN Min(elapsed + deltaSeconds, MaxElapsed)
                      ELSE elapsed
        /\ cancelled' = (cancelled \/ ListenerCancelled(r.events))

OnTick ==
    /\ timer' = onTick(timer)
    /\ events' = <<>>
    /\ lastCall' = Call("onTick", 0)
    /\ UNCHANGED <<expireCount, elapsed, cancelled>>

OnExpire ==
    /\ timer' = onExpire(timer)
    /\ events' = <<>>
    /\ lastCall' = Call("onExpire", 0)
    /\ UNCHANGED <<expireCount, elapsed, cancelled>>

Next ==
    \/ \E duration \in Durations : Start(duration) /\ UNCHANGED <<panelVars, sessionVars, backendVars, hitVars, inputVars>>
    \/ Stop /\ UNCHANGED <<panelVars, sessionVars, backendVars, hitVars, inputVars>>
    \/ Reset /\ UNCHANGED <<panelVars, sessionVars, backendVars, hitVars, inputVars>>
    \/ \E deltaSeconds \in Deltas, behaviour \in TickBehaviours :
           Update(deltaSeconds, behaviour) /\ UNCHANGED <<panelVars, sessionVars, backendVars, hitVars, inputVars>>
    \/ OnTick /\ UNCHANGED <<panelVars, sessionVars, backendVars, hitVars, inputVars>>
    \/ OnExpire /\ UNCHANGED <<panelVars, sessionVars, backendVars, hitVars, inputVars>>

(* The countdown clock driven through its public methods. *)
Spec == Init /\ [][Next]_vars

(* A frame of the render loop: update is called with the frame's delta; the
   tick listener calls nothing back. *)
Frame ==
    \E deltaSeconds \in Deltas :
        Update(deltaSeconds, "noop")
            /\ UNCHANGED <<panelVars, sessionVars, backendVars, hitVars, inputVars>>

FrameNext ==
    \/ \E duration \in Durations :
           /\ ~timer.isRunning
           /\ Start(duration)
           /\ UNCHANGED <<panelVars, sessionVars, backendVars, hitVars, inputVars>>
    \/ OnTick /\ UNCHANGED <<panelVars, sessionVars, backendVars, hitVars, inputVars>>
    \/ OnExpire /\ UNCHANGED <<panelVars, sessionVars, backendVars, hitVars, inputVars>>
    \/ Frame

(* The countdown clock under the render loop: update is called every frame,
   and a running timer is neither stopped, reset nor restarted. *)
FrameSpec == Init /\ [][FrameNext]_vars /\ WF_vars(Frame)

PanelNext ==
    \/ \E q \in Questions, hasContext \in BOOLEAN :
           ShowQuestion(q, hasContext) /\ UNCHANGED <<timerVars, sessionVars, backendVars, hitVars, inputVars>>
    \/ \E selectedIndex \in SelectedIndexes, correctIndex \in CorrectIndexes :
           SetFeedback(selectedIndex, correctIndex) /\ UNCHANGED <<timerVars, sessionVars, backendVars, hitVars, inputVars>>
    \/ HideAll /\ UNCHANGED <<timerVars, sessionVars, backendVars, hitVars, inputVars>>

(* The quiz panel driven through QuizUIManager's public methods. *)
PanelSpec == Init /\ [][PanelNext]_vars

(* The local coordinates the hit-test is tried at: for x, the two sides of
   the options' horizontal band, one unit outside each and the middle; for y,
   every option's two edges, one unit outside each and its middle, and the
   question's text. *)
HitXs ==
    LET left == CanvasScale * (OptionMargin \div 2) - Unit
    IN  {left - 1, left, 0, 0 - left, 1 - left}

HitYs ==
    UNION {LET top == Unit - CanvasScale * (startY + i * (optionHeight + optionSpacing))
               bottom == top - CanvasScale * optionHeight
           IN  {top + 1, top, (top + bottom) \div 2, bottom, bottom - 1} : i \in Indexes}
        \cup {Unit - CanvasScale * (startY - 2 * optionHeight)}

HitPoints == {PlanePoint(lx, ly) : lx \in HitXs, ly \in HitYs}

HitNext ==
    \/ \E q \in Questions, hasContext \in BOOLEAN :
           ShowQuestion(q, hasContext) /\ NoHit
               /\ UNCHANGED <<timerVars, sessionVars, backendVars, inputVars>>
    \/ HideAll /\ NoHit /\ UNCHANGED <<timerVars, sessionVars, backendVars, inputVars>>
    \/ \E point \in HitPoints :
           HitTest(point) /\ UNCHANGED <<timerVars, sessionVars, backendVars, inputVars>>

(* The hit-test applied to the panel at the points of a grid. *)
HitSpec == Init /\ [][HitNext]_vars

(* The objects a client registers: none, the group, the manager's panel, or
   the panel and the group in either order. *)
ObjectLists(m) ==
    {<<>>, <<Object3D("group", 0)>>, getInteractiveObjects(m),
     <<Object3D("group", 0)>> \o getInteractiveObjects(m),
     getInteractiveObjects(m) \o <<Object3D("group", 0)>>}

(* The rays of the input events: past everything; through the panel at the
   middle of option 1 and under option 0; through the panel beyond the
   raycaster's reach; through the group's mesh alone, before the panel and
   behind it. *)
Rays ==
    LET onOption == PlanePoint(0, BandMiddle(1))
        inGap == PlanePoint(0, BandMiddle(0) - (CanvasScale * (optionHeight + optionSpacing)) \div 2)
        onMesh == [x |-> Unit, y |-> Unit, z |-> 0 - Unit]
    IN  {<<>>,
         <<Crossing("panel", onOption, 3)>>,
         <<Crossing("panel", inGap, 3)>>,
         <<Crossing("panel", onOption, Far + 1)>>,
         <<Crossing("mesh", onMesh, 2)>>,
         <<Crossing("mesh", onMesh, 2), Crossing("panel", onOption, 3)>>,
         <<Crossing("panel", onOption, 3), Crossing("mesh", onMesh, 4)>>}

InputNext ==
    \/ \E q \in Questions :
           ShowQuestion(q, TRUE) /\ NoInput /\ inputCall' = InputCall("none", "none", <<>>)
               /\ UNCHANGED <<timerVars, sessionVars, backendVars, hitVars>>
    \/ HideAll /\ NoInput /\ inputCall' = InputCall("none", "none", <<>>)
           /\ UNCHANGED <<timerVars, sessionVars, backendVars, hitVars>>
    \/ OnObjectSelected /\ inputCall' = InputCall("onObjectSelected", "none", <<>>)
           /\ UNCHANGED <<timerVars, panelVars, sessionVars, backendVars, hitVars>>
    \/ \E objects \in ObjectLists(ui) :
           SetInteractiveObjects(objects)
               /\ inputCall' = InputCall("setInteractiveObjects", "none", <<>>)
               /\ UNCHANGED <<timerVars, panelVars, sessionVars, backendVars, hitVars>>
    \/ Dispose /\ inputCall' = InputCall("dispose", "none", <<>>)
           /\ UNCHANGED <<timerVars, panelVars, sessionVars, backendVars, hitVars>>
    \/ \E ray \in Rays :
           Click(ray) /\ inputCall' = InputCall("event", "pointer", ray)
               /\ UNCHANGED <<timerVars, panelVars, sessionVars, backendVars, hitVars>>
    \/ \E ray \in Rays :
           SelectStart(ray) /\ inputCall' = InputCall("event", "controller", ray)
               /\ UNCHANGED <<timerVars, panelVars, sessionVars, backendVars, hitVars>>

(* The input dispatcher driven through its public methods and its events,
   with the panels of a QuizUIManager among the objects. *)
InputSpec == Init /\ [][InputNext]_vars

(* The requests sent to the backend. *)
Languages == {"it", "en"}

Answers == {"a", "b"}

LanguageParams == {{}} \cup {{language} : language \in Languages}

RECURSIVE TranslationLists(_)
(* The translation lists of at most n entries with pairwise different
   languages, as the unique index on (question, language) admits. *)
TranslationLists(n) ==
    IF n = 0 THEN {<<>>}
    ELSE LET shorter == TranslationLists(n - 1)
         IN  shorter \cup
             {Append(list, [language |-> language, text |-> "text",
                            options |-> <<"a", "b", "c", "d">>,
                            correctAnswer |-> answer]) :
                 list \in {l \in shorter : Len(l) = n - 1},
                 language \in Languages, answer \in Answers}

CreateDtos ==
    {[difficulty |-> "easy", category |-> {}, imageUrl |-> {}, translations |-> list] :
        list \in {l \in TranslationLists(MaxTranslations) :
                     /\ l # <<>>
                     /\ \A j, k \in DOMAIN l : j # k => l[j].language # l[k].language}}

CheckAnswerDtos ==
    {[questionId |-> questionId, selectedAnswer |-> answer, language |-> language] :
        questionId \in 1..(MaxQuestions + 1), answer \in Answers,
        language \in LanguageParams}

BackendNext ==
    \/ \E createDto \in CreateDtos :
           Create(createDto)
               /\ UNCHANGED <<timerVars, panelVars, sessionVars, hitVars, inputVars>>
    \/ \E language \in LanguageParams :
           FindAll(language)
               /\ UNCHANGED <<timerVars, panelVars, sessionVars, hitVars, inputVars>>
    \/ \E language \in LanguageParams :
           GetRandom(language)
               /\ UNCHANGED <<timerVars, panelVars, sessionVars, hitVars, inputVars>>
    \/ \E dto \in CheckAnswerDtos :
           CheckAnswer(dto)
               /\ UNCHANGED <<timerVars, panelVars, sessionVars, hitVars, inputVars>>

(* The questions API driven by its four endpoints. *)
BackendSpec == Init /\ [][BackendNext]_vars

----------------------------------------------------------------------------
(* The session controller (section 4.6 of the specification): it shows a
   question and starts the clock, answers it by the first of a selection and
   the clock's expiry, and hides the panel.  Its tick listener only displays
   the time. *)

SessionQuestions ==
    { [text |-> "q1", options |-> <<"a", "b", "c", "d">>, correctIndex |-> 2],
      [text |-> "q2", options |-> <<"e", "f", "g", "h">>, correctIndex |-> 0] }

(* Where a ray can meet the panel: the middle of each option's band, the gap
   under the first option, the question's text. *)
SessionPoints ==
    {PlanePoint(0, BandMiddle(i)) : i \in Indexes}
        \cup {PlanePoint(0, BandMiddle(0) - (CanvasScale * (optionHeight + optionSpacing)) \div 2),
              PlanePoint(0, BandMiddle(0) + (CanvasScale * optionHeight) * 2)}

(* The rays of the input events: past the panel and through each point of
   SessionPoints. *)
SessionRays == {<<>>} \cup {<<Crossing("panel", point, 3)>> : point \in SessionPoints}

(* The expiry listener's reveal: paintDynamic with correctIndex set and
   selectedIndex as it is. *)
revealCorrect(m, correctIndex) ==
    IF CurrentData(m) = {} THEN [ui |-> m, paints |-> <<>>]
    ELSE LET p == The(m.quizContainer)
             r == updateQuiz(p, [The(p.currentData) EXCEPT !.correctIndex = {correctIndex}],
                             FALSE)
         IN  [ui |-> [m EXCEPT !.quizContainer = {r.panel}], paints |-> r.paints]

SessionCall(op, arg) ==
    [op |-> op, arg |-> arg,
     pre |-> [session |-> session, data |-> CurrentData(ui), answeredBy |-> answeredBy]]

SessionInit ==
    /\ timer = onExpire(onTick(TimerInit))
    /\ events = <<>>
    /\ lastCall = [op |-> "new", arg |-> 0, pre |-> onExpire(onTick(TimerInit))]
    /\ expireCount = 0
    /\ elapsed = 0
    /\ cancelled = FALSE
    /\ PanelInit
    /\ session = "Idle"
    /\ question = {}
    /\ answeredBy = "none"
    /\ sessionCall = [op |-> "new", arg |-> 0,
                      pre |-> [session |-> "Idle", data |-> {}, answeredBy |-> "none"]]
    /\ HitInit
    /\ BackendInit
    /\ im = onObjectSelected(IMInit)
    /\ selections = <<>>
    /\ inputCall = InputCall("none", "none", <<>>)

(* Idle -show(question)-> Showing; the shown panel becomes the interactive
   object. *)
SessionShow(q, hasContext) ==
    /\ session = "Idle"
    /\ ShowQuestion(q, hasContext)
    /\ SetInteractiveObjects(
           getInteractiveObjects(showQuestion(ui, q.text, q.options, hasContext).ui))
    /\ NoHit
    /\ UNCHANGED inputCall
    /\ Start(DefaultDuration)
    /\ session' = "Showing"
    /\ question' = {q}
    /\ answeredBy' = "none"
    /\ sessionCall' = SessionCall("show", 0)

(* The selection handler, invoked with the point of an intersection.
   withCorrect: the controller holds the correct index and reveals it with
   the selection. *)
SessionSelect(point) ==
    /\ sessionCall' = SessionCall("select", getSelectedOptionIndex(ui, point))
    /\ hit' = {[point |-> point,
                index |-> getSelectedOptionIndex(ui, point),
                after |-> intersectionPointAfter(ui, point),
                options |-> {Len(d.options) : d \in CurrentData(ui)}]}
    /\ IF session = "Showing" /\ getSelectedOptionIndex(ui, point) >= 0
       THEN /\ Stop
            /\ \E withCorrect \in BOOLEAN :
                  SetFeedback(getSelectedOptionIndex(ui, point),
                              IF withCorrect THEN {The(question).correctIndex} ELSE {})
            /\ session' = "Answered"
            /\ answeredBy' = "selection"
            /\ UNCHANGED question
       ELSE /\ paints' = <<>>
            /\ UNCHANGED <<timerVars, ui, panelCall, session, question, answeredBy>>

(* A click on the window: the handler runs if the dispatcher invokes it. *)
SessionClick(ray) ==
    /\ Click(ray)
    /\ UNCHANGED inputCall
    /\ IF click(im, ray) = <<>>
       THEN NoHit /\ UNCHANGED <<timerVars, panelVars, sessionVars>>
       ELSE SessionSelect(click(im, ray)[1].point)

(* A selectstart event of a controller. *)
SessionSelectStart(ray) ==
    /\ SelectStart(ray)
    /\ UNCHANGED inputCall
    /\ IF onSelectStart(im, ray) = <<>>
       THEN NoHit /\ UNCHANGED <<timerVars, panelVars, sessionVars>>
       ELSE SessionSelect(onSelectStart(im, ray)[1].point)

(* The correct index arrives after the selection was painted. *)
SessionReveal ==
    /\ session = "Answered"
    /\ answeredBy = "selection"
    /\ \E d \in CurrentData(ui) :
          /\ d.correctIndex = {}
          /\ SetFeedback(The(d.selectedIndex), {The(question).correctIndex})
    /\ sessionCall' = SessionCall("reveal", 0)
    /\ NoHit
    /\ NoInput
    /\ UNCHANGED inputCall
    /\ UNCHANGED <<timerVars, session, question, answeredBy>>

(* One frame: the clock is advanced; its expiry answers a showing question. *)
SessionAdvance(deltaSeconds) ==
    /\ Update(deltaSeconds, "noop")
    /\ sessionCall' = SessionCall("advance", deltaSeconds)
    /\ NoHit
    /\ NoInput
    /\ UNCHANGED inputCall
    /\ IF "expire" \in Kinds(update(timer, deltaSeconds, "noop").events)
          /\ session = "Showing"
       THEN /\ LET r == revealCorrect(ui, The(question).correctIndex)
               IN  /\ ui' = r.ui
                   /\ paints' = r.paints
            /\ panelCall' = PanelCall("updateQuiz", 0, {The(question).correctIndex})
            /\ session' = "Answered"
            /\ answeredBy' = "expiry"
            /\ UNCHANGED question
       ELSE /\ paints' = <<>>
            /\ UNCHANGED <<ui, panelCall, session, question, answeredBy>>

(* hide(): the panel is removed, the clock stopped and the interactive
   objects set to what the manager now offers: none. *)
SessionHide ==
    /\ session # "Idle"
    /\ HideAll
    /\ Stop
    /\ SetInteractiveObjects(getInteractiveObjects(hideAll(ui)))
    /\ NoHit
    /\ UNCHANGED inputCall
    /\ session' = "Idle"
    /\ question' = {}
    /\ answeredBy' = "none"
    /\ sessionCall' = SessionCall("hide", 0)

SessionNext ==
    \/ \E q \in SessionQuestions, hasContext \in BOOLEAN :
           SessionShow(q, hasContext) /\ UNCHANGED backendVars
    \/ \E ray \in SessionRays : SessionClick(ray) /\ UNCHANGED backendVars
    \/ \E ray \in SessionRays : SessionSelectStart(ray) /\ UNCHANGED backendVars
    \/ SessionReveal /\ UNCHANGED backendVars
    \/ \E deltaSeconds \in Deltas : SessionAdvance(deltaSeconds) /\ UNCHANGED backendVars
    \/ SessionHide /\ UNCHANGED backendVars

(* The clock and the panel driven by the session controller. *)
SessionSpec == SessionInit /\ [][SessionNext]_vars

----------------------------------------------------------------------------
(* Properties of the countdown clock, checked under Spec *)

pre == lastCall.pre

RunningUpdate == lastCall.op = "update" /\ pre.isRunning

Count(evs, kind) == Cardinality({i \in DOMAIN evs : evs[i].kind = kind})

(* C1: the expiry callback is invoked at most once per start(): only by an
   update of a running timer whose remaining time it brings to 0, which then
   leaves the timer stopped at 0; no later update invokes it again until a
   new start(). *)
C1_ExpiryOncePerStart ==
    /\ expireCount <= 1
    /\ Count(events, "expire") <= 1
    /\ "expire" \in Kinds(events) =>
          /\ RunningUpdate
          /\ pre.timeRemaining - lastCall.arg <= 0
          /\ timer.timeRemaining = 0
          /\ ~timer.isRunning
          /\ expireCount = 1
    /\ (RunningUpdate /\ pre.onExpireCallback /\ ~ListenerCancelled(events)
          /\ pre.timeRemaining - lastCall.arg <= 0) => "expire" \in Kinds(events)
    /\ (lastCall.op = "update" /\ ~pre.isRunning) => events = <<>>

(* An update made after the expiry has fired, which fired nothing. *)
C1_Witness ==
    /\ lastCall.op = "update"
    /\ expireCount = 1
    /\ ~pre.isRunning
    /\ pre.timeRemaining = 0
    /\ pre.onExpireCallback
    /\ events = <<>>

(* C2: with no stop()/reset() since start(d), a running update fires the
   expiry exactly when the cumulative delta has reached d, and not before;
   that update leaves remaining = 0 and the timer stopped, and its tick
   carries 0; an update that has not reached d leaves the timer running with
   remaining = d - cumulative delta. *)
C2_ExpiryAtCumulativeDelta ==
    (RunningUpdate /\ ~cancelled /\ pre.onExpireCallback) =>
        /\ "expire" \in Kinds(events) <=> elapsed >= timer.maxTime
        /\ timer.maxTime > 0 => elapsed - lastCall.arg < timer.maxTime
        /\ elapsed >= timer.maxTime =>
              /\ timer.timeRemaining = 0
              /\ ~timer.isRunning
              /\ expireCount = 1
              /\ pre.onTickCallback => events[1].kind = "tick" /\ events[1].value = 0
        /\ elapsed < timer.maxTime =>
              /\ timer.isRunning
              /\ timer.timeRemaining = timer.maxTime - elapsed

(* start(MaxDuration), then updates that reach it exactly: tick 0, expiry. *)
C2_Witness ==
    /\ RunningUpdate
    /\ ~cancelled
    /\ timer.maxTime = MaxDuration
    /\ elapsed = timer.maxTime
    /\ Len(events) = 2
    /\ events[1].kind = "tick" /\ events[1].value = 0
    /\ events[2].kind = "expire"

(* C6: once stop() or reset() has been called, between updates or by the
   tick listener of the update that reaches 0, no expiry fires until the next
   start() (a countdown started with a positive duration); reset() returns
   remaining to max and stop() leaves it unchanged. *)
C6_NoExpiryAfterCancel ==
    /\ (cancelled /\ pre.maxTime > 0) => "expire" \notin Kinds(events)
    /\ lastCall.op = "reset" => timer.timeRemaining = timer.maxTime
    /\ lastCall.op = "stop" => timer.timeRemaining = pre.timeRemaining

(* C7: an update of a running timer with a tick listener invokes the tick
   first, with the remaining time clamped at 0, and the expiry, if any, after
   it. *)
C7_TickBeforeExpiry ==
    (RunningUpdate /\ pre.onTickCallback) =>
        /\ Len(events) >= 1
        /\ events[1].kind = "tick"
        /\ events[1].value = Max(0, pre.timeRemaining - lastCall.arg)
        /\ events[1].value >= 0
        /\ \A i \in DOMAIN events : i > 1 => events[i].kind = "expire"

(* An update that overshoots 0: the tick carries 0 and the expiry follows. *)
C7_Witness ==
    /\ RunningUpdate
    /\ pre.timeRemaining - lastCall.arg < 0
    /\ Len(events) = 2
    /\ events[1].kind = "tick" /\ events[1].value = 0 /\ events[1].did = "noop"
    /\ events[2].kind = "expire"

(* C8: 0 <= remaining <= max wherever getTimeRemaining() can be read: between
   calls and inside the tick and expiry callbacks (a countdown started with a
   positive duration). *)
C8_RemainingWithinBounds ==
    timer.maxTime > 0 =>
        /\ 0 <= getTimeRemaining(timer) /\ getTimeRemaining(timer) <= timer.maxTime
        /\ \A i \in DOMAIN events :
               0 <= events[i].remaining /\ events[i].remaining <= events[i].maxTime

(* C9: start(duration) with duration <= 0 is rejected before any state is
   mutated: the timer is as it was before the call. *)
C9_NonPositiveDurationRejected ==
    (lastCall.op = "start" /\ lastCall.arg <= 0) => timer = pre

(* C10: update while the timer is stopped changes no field and invokes no
   callback. *)
C10_UpdateWhileStoppedIsNoOp ==
    (lastCall.op = "update" /\ ~pre.isRunning) =>
        /\ timer = pre
        /\ events = <<>>

(* An update of a timer stopped midway, with both listeners registered. *)
C10_Witness ==
    /\ lastCall.op = "update"
    /\ ~pre.isRunning
    /\ pre.onTickCallback /\ pre.onExpireCallback
    /\ 0 < pre.timeRemaining /\ pre.timeRemaining < pre.maxTime
    /\ cancelled

----------------------------------------------------------------------------
(* Properties of the session, checked under SessionSpec *)

NeutralColors ==
    [bgStart |-> "#9B5DFF", bgEnd |-> "#7B3FDF",
     borderColor |-> "#D9A500", textColor |-> "#FFFFFF"]

CorrectColors ==
    [bgStart |-> "#00FFBF", bgEnd |-> "#00CC99",
     borderColor |-> "#00CC99", textColor |-> "#141414"]

(* C3: a selection of option i while Showing records selectedIndex = i and
   stops the clock; a clock update made after it, also one that would have
   brought the remaining time to 0, fires no expiry, leaves the panel data as
   it was and repaints nothing. *)
C3_SelectionExcludesExpiry ==
    /\ (/\ sessionCall.op = "select"
        /\ sessionCall.pre.session = "Showing"
        /\ sessionCall.arg >= 0) =>
          /\ session = "Answered"
          /\ ~timer.isRunning
          /\ \A d \in CurrentData(ui) : d.selectedIndex = {sessionCall.arg}
    /\ (/\ sessionCall.op = "advance"
        /\ sessionCall.pre.session = "Answered"
        /\ sessionCall.pre.answeredBy = "selection") =>
          /\ "expire" \notin Kinds(events)
          /\ CurrentData(ui) = sessionCall.pre.data
          /\ paints = <<>>
          /\ session = "Answered"
          /\ answeredBy = "selection"

(* Option 2 was selected with time left; this update would have expired the
   clock. *)
C3_Witness ==
    /\ sessionCall.op = "advance"
    /\ sessionCall.pre.answeredBy = "selection"
    /\ lastCall.pre.timeRemaining > 0
    /\ lastCall.pre.timeRemaining - lastCall.arg <= 0
    /\ \E d \in CurrentData(ui) : d.selectedIndex = {2}

(* C5: when the clock expires on a showing question, the session becomes
   Answered with selectedIndex absent and correctIndex set, and the panel
   draws the correct option as correct and every other option neutral; this
   stays so until the panel is hidden. *)
C5_ExpiryRevealsCorrectOnly ==
    /\ (/\ sessionCall.op = "advance"
        /\ sessionCall.pre.session = "Showing"
        /\ "expire" \in Kinds(events)) =>
          session = "Answered" /\ answeredBy = "expiry"
    /\ (session = "Answered" /\ answeredBy = "expiry") =>
          /\ CurrentData(ui) # {}
          /\ \A d \in CurrentData(ui) :
                /\ d.selectedIndex = {}
                /\ d.correctIndex = {The(question).correctIndex}
                /\ \A i \in 0..(Len(d.options) - 1) :
                      optionColors(d, i) =
                          IF i = The(question).correctIndex
                          THEN CorrectColors ELSE NeutralColors

(* The update in which the clock expired on a showing question and the
   reveal was painted. *)
C5_Witness ==
    /\ sessionCall.op = "advance"
    /\ sessionCall.pre.session = "Showing"
    /\ "expire" \in Kinds(events)
    /\ session = "Answered"
    /\ Len(paints) = 1
    /\ paints[1].kind = "dynamic"
    /\ \A d \in paints[1].data : d.correctIndex = {2} /\ d.selectedIndex = {}

(* C13: the handler is never invoked with a panel that was removed from the
   scene and disposed; no such panel stays registered as interactive object,
   and hide leaves the clock stopped and no interactive object registered. *)
C13_NoDispatchToDisposedPanel ==
    /\ \A k \in DOMAIN selections :
          selections[k].object.kind = "panel" =>
              /\ selections[k].object.id \notin ui.disposed
              /\ selections[k].object.id \in ui.scene
    /\ \A k \in DOMAIN im.interactiveObjects :
          im.interactiveObjects[k].id \notin ui.disposed
    /\ sessionCall.op = "hide" =>
          /\ ~timer.isRunning
          /\ im.interactiveObjects = <<>>
          /\ ui.quizContainer = {}

(* An input event dispatched to the shown panel after an earlier panel was
   hidden and disposed. *)
C13_Witness ==
    /\ ui.disposed # {}
    /\ Len(selections) = 1
    /\ selections[1].object.id \in ui.scene

----------------------------------------------------------------------------
(* Properties of the quiz panel, checked under PanelSpec *)

(* C4: once feedback has been applied to the current question, a later
   setFeedback leaves selectedIndex and correctIndex of the panel data as
   they were. *)
C4_FeedbackAfterAnsweredIgnored ==
    (/\ panelCall.op = "setFeedback"
     /\ \E d \in CurrentData(panelCall.pre) :
            /\ d.selectedIndex # {} /\ d.selectedIndex \subseteq Indexes
            /\ d.correctIndex # {}) =>
        \A d \in CurrentData(ui) : \A d0 \in CurrentData(panelCall.pre) :
            /\ d.selectedIndex = d0.selectedIndex
            /\ d.correctIndex = d0.correctIndex

(* C14: within one question's lifecycle, a call other than showQuestion and
   hideAll leaves a selectedIndex that was set as it was, and a correctIndex
   that was set as it was. *)
C14_FeedbackNeverUnset ==
    panelCall.op \notin {"new", "showQuestion", "hideAll"} =>
        \A d0 \in CurrentData(panelCall.pre) :
            /\ CurrentData(ui) # {}
            /\ \A d \in CurrentData(ui) :
                  /\ d0.selectedIndex # {} => d.selectedIndex = d0.selectedIndex
                  /\ d0.correctIndex # {} => d.correctIndex = d0.correctIndex

(* C15: hideAll leaves no panel, and the showQuestion after it leaves the
   panel data a first showQuestion of the same question leaves: the question's
   text and options, selectedIndex and correctIndex absent. *)
C15_ShowAfterHideIsFirstShow ==
    /\ panelCall.op = "hideAll" =>
          /\ ui.quizContainer = {}
          /\ ui.scene = {}
    /\ panelCall.op = "showQuestion" =>
          \E q \in Questions :
              /\ CurrentData(ui) =
                     CurrentData(showQuestion(UIInit, q.text, q.options, TRUE).ui)
              /\ \A d \in CurrentData(ui) :
                     /\ d.question = q.text
                     /\ d.options = q.options
                     /\ d.selectedIndex = {}
                     /\ d.correctIndex = {}

(* q2 shown by a manager that has hidden and disposed an earlier panel. *)
C15_Witness ==
    /\ panelCall.op = "showQuestion"
    /\ panelCall.pre.quizContainer = {}
    /\ panelCall.pre.disposed # {}
    /\ \E d \in CurrentData(ui) : d.question = "q2"

(* C17: whenever the panel has data, the data has exactly 4 options. *)
C17_PanelHasFourOptions ==
    \A d \in CurrentData(ui) : Len(d.options) = 4

(* The visual state of option index under data d, and the colours of each
   state. *)
VisualState(d, index) ==
    IF d.correctIndex # {} /\ d.correctIndex = {index} THEN "correct"
    ELSE IF d.correctIndex # {} /\ d.selectedIndex = {index} THEN "incorrect-selected"
    ELSE IF d.correctIndex = {} /\ d.selectedIndex = {index} THEN "selected-pending"
    ELSE "neutral"

SelectedColors ==
    [bgStart |-> "#6B25C4", bgEnd |-> "#7B3FDF",
     borderColor |-> "#FFC93C", textColor |-> "#FFFFFF"]

IncorrectColors ==
    [bgStart |-> "#FF2B6D", bgEnd |-> "#CC2255",
     borderColor |-> "#CC2255", textColor |-> "#FFFFFF"]

StateColors(state) ==
    CASE state = "correct" -> CorrectColors
      [] state = "incorrect-selected" -> IncorrectColors
      [] state = "selected-pending" -> SelectedColors
      [] OTHER -> NeutralColors

(* C20: in every repaint each option is drawn in the colours of the one
   visual state that its index, selectedIndex and correctIndex determine, and
   the four states differ in their background and border. *)
C20_OneVisualStatePerOption ==
    /\ \A k \in DOMAIN paints : \A d \in paints[k].data :
          \A index \in 0..(Len(d.options) - 1) :
              optionColors(d, index) = StateColors(VisualState(d, index))
    /\ \A s1, s2 \in {"correct", "incorrect-selected", "selected-pending", "neutral"} :
          s1 # s2 =>
              /\ StateColors(s1).bgStart # StateColors(s2).bgStart
              /\ StateColors(s1).borderColor # StateColors(s2).borderColor

(* A repaint that shows a wrong selection and the correct option. *)
C20_Witness ==
    /\ Len(paints) = 1
    /\ paints[1].kind = "dynamic"
    /\ \E d \in paints[1].data :
          /\ Len(d.options) = 4
          /\ d.selectedIndex = {1}
          /\ d.correctIndex = {2}

----------------------------------------------------------------------------
(* Properties of the hit-test, checked under HitSpec *)

(* The options' layout in panel-local coordinates: the local y of the upper
   and lower edge of option i's band, the half width of the horizontal band. *)
BandTop(i) == Unit - CanvasScale * (startY + i * (optionHeight + optionSpacing))

BandBottom(i) == BandTop(i) - CanvasScale * optionHeight

WithinHorizontalBand(local) ==
    /\ local.x >= CanvasScale * (OptionMargin \div 2) - Unit
    /\ local.x <= Unit - CanvasScale * (OptionMargin \div 2)

StrictlyInsideBand(local, i) == local.y < BandTop(i) /\ local.y > BandBottom(i)

OutsideEveryBand(local, n) ==
    \/ ~WithinHorizontalBand(local)
    \/ \A i \in 0..(n - 1) : local.y > BandTop(i) \/ local.y < BandBottom(i)

(* C11: getSelectedOptionIndex returns i for a point strictly inside option
   i's vertical band and within the horizontal band, -1 for a point outside
   every band, and never anything but -1 or an index below the number of
   options. *)
C11_HitTestResolvesBands ==
    \A h \in hit :
        /\ h.options = {} => h.index = -1
        /\ \A n \in h.options :
              LET local == [x |-> h.point.x - PanelPosition.x,
                            y |-> h.point.y - PanelPosition.y]
              IN  /\ \A i \in 0..(n - 1) :
                        WithinHorizontalBand(local) /\ StrictlyInsideBand(local, i)
                            => h.index = i
                  /\ OutsideEveryBand(local, n) => h.index = -1
                  /\ h.index = -1 \/ h.index \in 0..(n - 1)

(* A hit-test of a point strictly inside the last option's band. *)
C11_Witness ==
    \E h \in hit :
        /\ h.options = {4}
        /\ StrictlyInsideBand([x |-> h.point.x - PanelPosition.x,
                               y |-> h.point.y - PanelPosition.y], 3)
        /\ h.index = 3

(* The points of the plane the panel shows: PlaneGeometry(1.6, 1.6). *)
OnPlane(point) ==
    /\ point.x - PanelPosition.x >= 0 - PlaneHalf
    /\ point.x - PanelPosition.x <= PlaneHalf
    /\ point.y - PanelPosition.y >= 0 - PlaneHalf
    /\ point.y - PanelPosition.y <= PlaneHalf
    /\ point.z = PanelPosition.z

(* C12: for every point of the panel's plane, getSelectedOptionIndex returns
   the index of the option drawOptions painted under the point, and -1 where
   no option is painted. *)
C12_HitTestMatchesPaint ==
    \A h \in hit : \A n \in h.options :
        OnPlane(h.point) => h.index = paintedOptionAt(n, h.point)

----------------------------------------------------------------------------
(* Properties of the session's input, checked under SessionSpec *)

(* C16: a selection at a point outside every option while the question is
   showing returns -1 and changes nothing: the panel and its data, the
   caller's intersection point and the canvas are as before, the session is
   still Showing and the clock still running. *)
C16_MissedClickChangesNothing ==
    (sessionCall.op = "select" /\ sessionCall.pre.session = "Showing") =>
        \A h \in hit : \A n \in h.options :
            OutsideEveryBand([x |-> h.point.x - PanelPosition.x,
                              y |-> h.point.y - PanelPosition.y], n) =>
                /\ h.index = -1
                /\ sessionCall.arg = -1
                /\ h.after = h.point
                /\ CurrentData(ui) = sessionCall.pre.data
                /\ ui.quizContainer # {}
                /\ paints = <<>>
                /\ session = "Showing"
                /\ answeredBy = "none"
                /\ timer.isRunning

(* A click dispatched to the showing panel at a point between two options. *)
C16_Witness ==
    /\ sessionCall.op = "select"
    /\ sessionCall.pre.session = "Showing"
    /\ Len(selections) = 1
    /\ \E h \in hit :
          /\ h.options = {4}
          /\ h.point = selections[1].point
          /\ OutsideEveryBand([x |-> h.point.x - PanelPosition.x,
                                y |-> h.point.y - PanelPosition.y], 4)
          /\ h.index = -1
    /\ session = "Showing"
    /\ timer.isRunning

----------------------------------------------------------------------------
(* Properties of the input dispatcher, checked under InputSpec *)

(* Whether the ray of a device's event meets a registered object at a
   crossing: a registered panel where the ray crosses the panel, the mesh of
   a registered group in the pointer's recursive test, within the reach. *)
Meets(object, device, crossing) ==
    /\ crossing.distance <= Far
    /\ \/ object.kind = "panel" /\ crossing.at = "panel"
       \/ object.kind = "group" /\ device = "pointer" /\ crossing.at = "mesh"

HitCrossings(device, ray) ==
    {k \in DOMAIN ray :
        \E j \in DOMAIN im.interactiveObjects :
            Meets(im.interactiveObjects[j], device, ray[k])}

ListenerAttached(device) ==
    IF device = "pointer" THEN im.clickListener ELSE im.selectStartListeners

(* C18: an input event invokes the handler exactly once, with the nearest
   intersected object and its intersection point, when a handler is
   registered and the ray hits a registered object; otherwise it invokes
   nothing. *)
C18_DispatchNearestOnce ==
    inputCall.op = "event" /\ ListenerAttached(inputCall.device) =>
        LET ray == inputCall.ray
            hits == HitCrossings(inputCall.device, ray)
        IN  IF im.onSelectCallback /\ im.interactiveObjects # <<>> /\ hits # {}
            THEN /\ Len(selections) = 1
                 /\ \E k \in hits :
                       /\ \A k2 \in hits : ray[k].distance <= ray[k2].distance
                       /\ selections[1].point = ray[k].point
                       /\ IF ray[k].at = "mesh"
                          THEN selections[1].object = Object3D("mesh", 0)
                          ELSE \E j \in DOMAIN im.interactiveObjects :
                                   selections[1].object = im.interactiveObjects[j]
            ELSE selections = <<>>

(* A click whose ray crosses the registered group's mesh and then the
   registered panel: the handler got the mesh. *)
C18_Witness ==
    /\ inputCall.op = "event"
    /\ Len(inputCall.ray) = 2
    /\ inputCall.ray[1].at = "mesh"
    /\ \E j \in DOMAIN im.interactiveObjects : im.interactiveObjects[j].kind = "panel"
    /\ Len(selections) = 1
    /\ selections[1].object = Object3D("mesh", 0)
    /\ selections[1].point = inputCall.ray[1].point

OtherDevice(device) == IF device = "pointer" THEN "controller" ELSE "pointer"

(* C19: with panels as the interactive objects, the event of one device
   makes the handler receive the objects and points that the other device's
   event with the same ray would, and the hit-test gives the same option
   index for both. *)
C19_DeviceIndependence ==
    (/\ inputCall.op = "event"
     /\ im.clickListener /\ im.selectStartListeners
     /\ \A j \in DOMAIN im.interactiveObjects : im.interactiveObjects[j].kind = "panel") =>
        LET other == deliver(im, OtherDevice(inputCall.device), inputCall.ray)
        IN  /\ Len(other) = Len(selections)
            /\ \A k \in DOMAIN selections :
                  /\ other[k].object = selections[k].object
                  /\ other[k].point = selections[k].point
                  /\ getSelectedOptionIndex(ui, other[k].point)
                        = getSelectedOptionIndex(ui, selections[k].point)

(* A controller event at the middle of option 1 of the registered, shown
   panel. *)
C19_Witness ==
    /\ inputCall.op = "event"
    /\ inputCall.device = "controller"
    /\ im.clickListener /\ im.selectStartListeners
    /\ Len(selections) = 1
    /\ selections[1].object.kind = "panel"
    /\ selections[1].object.id \in ui.scene
    /\ getSelectedOptionIndex(ui, selections[1].point) = 1
    /\ click(im, inputCall.ray) = selections

----------------------------------------------------------------------------
(* Properties of the questions API, checked under BackendSpec *)

(* The stored questions with every correctAnswer replaced by one answer. *)
WithAnswers(d, answer) ==
    [q \in DOMAIN d |->
        [d[q] EXCEPT !.translations =
            [k \in DOMAIN d[q].translations |->
                [d[q].translations[k] EXCEPT !.correctAnswer = answer]]]]

PublicFields == {"id", "text", "options", "difficulty", "category", "imageUrl", "language"}

(* C21: the public results of findAll and getRandom never reveal the correct
   answer: a returned question has the public fields only, no correctAnswer,
   and the result is the one the same stored questions would give with any
   other correct answers. *)
C21_PublicResultsHideAnswer ==
    /\ reply.op = "findAll" =>
          /\ reply.response.status = "ok" =>
                \A k \in DOMAIN reply.response.body :
                    DOMAIN reply.response.body[k] = PublicFields
          /\ \A answer \in Answers \cup {"e"} :
                reply.response = findAll(WithAnswers(reply.pre, answer), reply.request)
    /\ reply.op = "getRandom" =>
          /\ reply.response.status = "ok" => DOMAIN reply.response.body = PublicFields
          /\ \A answer \in Answers \cup {"e"} :
                reply.response \in getRandom(WithAnswers(reply.pre, answer), reply.request)

(* C21 happens: findAll returned two questions whose stored correct answers
   differ, and getRandom returned a question. *)
C21_Witness ==
    /\ reply.op = "findAll"
    /\ reply.response.status = "ok"
    /\ Len(reply.response.body) = 2
    /\ \E j, k \in DOMAIN reply.pre :
          \E t \in DOMAIN reply.pre[j].translations, u \in DOMAIN reply.pre[k].translations :
              /\ reply.pre[j].translations[t].language = reply.pre[k].translations[u].language
              /\ reply.pre[j].translations[t].correctAnswer
                     # reply.pre[k].translations[u].correctAnswer

(* The stored translations a checkAnswer request is about: those of the
   question with the requested id, in the requested language or in 'it'. *)
AskedTranslations(d, dto) ==
    {d[q].translations[k] :
        <<q, k>> \in {pair \in (DOMAIN d) \X (1..MaxTranslations) :
                        /\ d[pair[1]].id = dto.questionId
                        /\ pair[2] \in DOMAIN d[pair[1]].translations
                        /\ d[pair[1]].translations[pair[2]].language =
                               (IF dto.language = {} THEN "it"
                                ELSE CHOOSE language \in dto.language : TRUE)}}

(* C22: checkAnswer answers isCorrect = TRUE exactly when the selected answer
   is the stored correctAnswer of the translation of that question in that
   language ('it' when none is given); when there is no such translation the
   service fails with not-found, the endpoint answers with an error response
   and no isCorrect result, and in both cases nothing stored changes. *)
C22_CheckAnswerVerdict ==
    reply.op = "checkAnswer" =>
        LET asked == AskedTranslations(reply.pre, reply.request)
        IN  /\ db = reply.pre
            /\ asked # {} =>
                  /\ reply.response.status = "ok"
                  /\ DOMAIN reply.response.body = {"isCorrect"}
                  /\ \A translation \in asked :
                        reply.response.body.isCorrect
                            <=> reply.request.selectedAnswer = translation.correctAnswer
            /\ asked = {} =>
                  /\ checkAnswer(reply.pre, reply.request).status = "NotFound"
                  /\ reply.response.status = "BadRequest"
                  /\ reply.response.body = "Question not found"

(* C22 happens: an answer sent without a language was checked against the
   'it' translation of a question that also has another translation with a
   different correct answer, and was found correct. *)
C22_Witness ==
    /\ reply.op = "checkAnswer"
    /\ reply.request.language = {}
    /\ reply.response.status = "ok"
    /\ reply.response.body.isCorrect
    /\ \E q \in DOMAIN reply.pre :
          /\ reply.pre[q].id = reply.request.questionId
          /\ \E k \in DOMAIN reply.pre[q].translations :
                /\ reply.pre[q].translations[k].language = "en"
                /\ reply.pre[q].translations[k].correctAnswer
                       # reply.request.selectedAnswer

----------------------------------------------------------------------------
(* Disposal of the input dispatcher, checked under InputSpec *)

(* dispose() has been called: only dispose removes the controllers'
   selectstart listeners. *)
Disposed == ~im.selectStartListeners

(* C23: after dispose() no input event, neither a controller's selectstart
   nor a click on the window, invokes the selection handler. *)
C23_NoDispatchAfterDispose ==
    Disposed /\ inputCall.op = "event" => selections = <<>>

----------------------------------------------------------------------------
(* Restarting the countdown clock, checked under Spec *)

(* C24: start(duration) with duration > 0 leaves the timer running with
   remaining = max = duration whatever its state was; after a start made
   while the timer was running the countdown begins again, so the expiry
   fires only once the time elapsed since the latest start has reached the
   latest duration, never at the time the earlier start would have expired. *)
C24_StartRestartsCountdown ==
    /\ lastCall.op = "start" /\ lastCall.arg > 0 =>
          /\ timer.isRunning
          /\ timer.timeRemaining = lastCall.arg
          /\ timer.maxTime = lastCall.arg
          /\ events = <<>>
    /\ "expire" \in Kinds(events) => elapsed >= timer.maxTime

(* C24 happens: start(duration) was called on a running timer that had less
   time left than the new duration. *)
C24_Witness ==
    /\ lastCall.op = "start"
    /\ lastCall.arg > 1
    /\ lastCall.pre.isRunning
    /\ lastCall.pre.timeRemaining > 0
    /\ lastCall.pre.timeRemaining < lastCall.arg
    /\ lastCall.pre.maxTime # lastCall.arg
    /\ lastCall.pre.onExpireCallback

----------------------------------------------------------------------------
(* Replacing an answered question, checked under PanelSpec *)

(* The panel of m shows feedback: a selection or the correct option. *)
ShowsFeedback(m) ==
    \E d \in CurrentData(m) : d.selectedIndex # {} \/ d.correctIndex # {}

(* C25: showQuestion called while the previous question still shows its
   feedback goes through the hide cleanup first: the old panel is out of the
   scene and disposed, and the new question is on a panel made by this call. *)
C25_ShowAfterAnsweredUsesFreshPanel ==
    panelCall.op = "showQuestion" /\ ShowsFeedback(panelCall.pre) =>
        \A old \in panelCall.pre.quizContainer :
            /\ old.id \notin ui.scene
            /\ old.id \in ui.disposed
            /\ \A p \in ui.quizContainer : p.id # old.id /\ p.id = ui.created
            /\ ui.created = panelCall.pre.created + 1

----------------------------------------------------------------------------
(* The order of the paints, checked under PanelSpec *)

(* C26: a dynamic paint of a panel happens only after a static paint of that
   panel: while isBackgroundDrawn is false a call that reaches updateQuiz
   paints nothing, and every paint that runs, static or dynamic, marks the
   texture dirty. *)
C26_DynamicPaintNeedsBackground ==
    /\ \A i \in DOMAIN paints :
          /\ paints[i].needsUpdate
          /\ paints[i].kind = "dynamic" =>
                \/ \E j \in 1..(i - 1) :
                       paints[j].kind = "static" /\ paints[j].panel = paints[i].panel
                \/ \E p \in panelCall.pre.quizContainer :
                       p.id = paints[i].panel /\ p.isBackgroundDrawn
    /\ \A p \in ui.quizContainer :
          /\ p.isBackgroundDrawn => p.hasContext
          /\ ~p.isBackgroundDrawn => paints = <<>>

(* C26 happens: showQuestion and then setFeedback reached updateQuiz on a
   panel whose background was never painted; the data was stored and nothing
   was painted. *)
C26_Witness ==
    /\ panelCall.op = "setFeedback"
    /\ paints = <<>>
    /\ \E p \in ui.quizContainer :
          /\ ~p.isBackgroundDrawn
          /\ \E d \in p.currentData : d.selectedIndex # {}

----------------------------------------------------------------------------
(* The urgency cue of the countdown clock, checked under Spec *)

(* C27: whenever the timer is not running, after stop(), reset() or the
   expiry, a stop() made by the tick listener included, the urgency cue is
   not playing. *)
C27_CueSilentWhenStopped ==
    ~timer.isRunning => ~timer.audioPlaying

----------------------------------------------------------------------------
(* Termination of the countdown, checked under FrameSpec *)

(* C28: a running timer advanced every frame by a positive delta, and not
   stopped, reset or restarted, eventually expires: an update leaves it
   stopped with remaining = 0, having invoked the expiry callback if one is
   registered. *)
C28_RunningTimerExpires ==
    timer.isRunning ~>
        /\ ~timer.isRunning
        /\ timer.timeRemaining = 0
        /\ lastCall.op = "update"
        /\ lastCall.pre.isRunning
        /\ lastCall.pre.onExpireCallback => "expire" \in Kinds(events)

(* C28 happens: a countdown of several frames has expired and its expiry
   callback has been invoked. *)
C28_Witness ==
    /\ lastCall.op = "update"
    /\ lastCall.pre.isRunning
    /\ ~timer.isRunning
    /\ timer.timeRemaining = 0
    /\ timer.maxTime > MaxDelta
    /\ elapsed >= timer.maxTime
    /\ "expire" \in Kinds(events)

----------------------------------------------------------------------------
(* The panel and the scene, checked under PanelSpec *)

(* C29: after any showQuestion, setFeedback and hideAll calls the scene holds
   at most one quiz panel, a panel is in the scene exactly when the manager
   references it, the referenced panel is not disposed, getInteractiveObjects
   is that panel alone, or the empty list when there is none, and a hideAll
   after a hideAll changes nothing. *)
C29_OnePanelInScene ==
    /\ Cardinality(ui.scene) <= 1
    /\ ui.scene = {p.id : p \in ui.quizContainer}
    /\ \A p \in ui.quizContainer : p.id \notin ui.disposed
    /\ getInteractiveObjects(ui) =
          (IF ui.scene = {} THEN <<>>
           ELSE <<[kind |-> "panel", id |-> CHOOSE id \in ui.scene : TRUE]>>)
    /\ hideAll(hideAll(ui)) = hideAll(ui)
    /\ panelCall.op = "hideAll" /\ panelCall.pre.quizContainer = {} =>
          ui = panelCall.pre /\ paints = <<>>

(* C29 happens: hideAll was called with no panel shown, after every panel of
   the run had been shown, hidden and disposed. *)
C29_Witness ==
    /\ panelCall.op = "hideAll"
    /\ panelCall.pre.quizContainer = {}
    /\ Cardinality(ui.disposed) = MaxPanels

----------------------------------------------------------------------------
(* The manager with no panel shown, checked under PanelSpec *)

(* C30: with no panel shown, before the first showQuestion or after hideAll,
   setFeedback changes nothing: it makes no panel, stores no data and paints
   nothing; and getSelectedOptionIndex is -1 at every point. *)
C30_NoPanelNoFeedback ==
    /\ panelCall.op = "setFeedback" /\ panelCall.pre.quizContainer = {} =>
          /\ ui = panelCall.pre
          /\ ui.quizContainer = {}
          /\ ui.scene = {}
          /\ CurrentData(ui) = {}
          /\ paints = <<>>
    /\ ui.quizContainer = {} =>
          \A point \in HitPoints : getSelectedOptionIndex(ui, point) = -1

(* C30 happens: setFeedback was called after hideAll had removed the panel. *)
C30_Witness ==
    /\ panelCall.op = "setFeedback"
    /\ panelCall.pre.quizContainer = {}
    /\ panelCall.pre.disposed # {}
    /\ ui.quizContainer = {}

----------------------------------------------------------------------------
(* What setFeedback leaves alone, checked under PanelSpec *)

(* C31: setFeedback changes only selectedIndex and correctIndex of the panel
   data: the question text and the options after the call are those before
   it, which are the text and options of one question given to showQuestion;
   the panel is the same object, and the scene, the disposed panels and the
   number of panels made are as before. *)
C31_FeedbackKeepsQuestion ==
    panelCall.op = "setFeedback" =>
        /\ ui.scene = panelCall.pre.scene
        /\ ui.disposed = panelCall.pre.disposed
        /\ ui.created = panelCall.pre.created
        /\ {p.id : p \in ui.quizContainer} = {p.id : p \in panelCall.pre.quizContainer}
        /\ \A p \in ui.quizContainer : \A p0 \in panelCall.pre.quizContainer :
              /\ p.hasContext = p0.hasContext
              /\ p.isBackgroundDrawn = p0.isBackgroundDrawn
              /\ \A d0 \in p0.currentData :
                    /\ p.currentData # {}
                    /\ \A d \in p.currentData :
                          /\ d.question = d0.question
                          /\ d.options = d0.options
                          /\ d.selectedIndex = {panelCall.a}
                          /\ d.correctIndex = panelCall.b
                          /\ \E q \in Questions :
                                d.question = q.text /\ d.options = q.options

(* C31 happens: a second setFeedback, with other indexes, on the panel of a
   question shown after an earlier panel was hidden. *)
C31_Witness ==
    /\ panelCall.op = "setFeedback"
    /\ panelCall.pre.disposed # {}
    /\ \E d0 \in CurrentData(panelCall.pre) : \E d \in CurrentData(ui) :
          /\ d0.selectedIndex # {}
          /\ d0.selectedIndex # d.selectedIndex
          /\ d0.correctIndex # d.correctIndex
          /\ d.question = "q2"
          /\ Len(d.options) = 4

----------------------------------------------------------------------------
(* The option bands of the hit-test, checked under HitSpec *)

(* The options whose vertical band, edges included, holds the canvas Y of a
   panel-local y. *)
BandsHolding(ly, n) ==
    {i \in 0..(n - 1) :
        /\ Unit - ly >= CanvasScale * optionY(i)
        /\ Unit - ly <= CanvasScale * (optionY(i) + optionHeight)}

(* C32: the option bands of the hit-test are pairwise disjoint: each spans
   optionHeight and the next begins a positive spacing below it, so no canvas
   Y, a band's edge included, lies in two bands, and getSelectedOptionIndex
   returns the same index whether the bands are scanned from the top or from
   the bottom. *)
C32_BandsDisjoint ==
    /\ optionSpacing > 0
    /\ \A i, j \in Indexes :
          i < j => optionY(i) + optionHeight < optionY(j)
    /\ \A i \in Indexes : i < MaxIndex =>
          optionY(i + 1) - (optionY(i) + optionHeight) = optionSpacing
    /\ \A h \in hit : \A n \in h.options :
          LET local == [x |-> h.point.x - PanelPosition.x,
                        y |-> h.point.y - PanelPosition.y]
              holding == BandsHolding(local.y, n)
          IN  /\ Cardinality(holding) <= 1
              /\ WithinHorizontalBand(local) /\ holding # {} =>
                    /\ h.index = (CHOOSE i \in holding : \A j \in holding : i <= j)
                    /\ h.index = (CHOOSE i \in holding : \A j \in holding : i >= j)

(* C32 happens: a hit-test at the lower edge of the first option's band, the
   edge nearest to the second band, answered 0. *)
C32_Witness ==
    \E h \in hit :
        /\ h.options = {4}
        /\ h.point.y - PanelPosition.y = BandBottom(0)
        /\ WithinHorizontalBand([x |-> h.point.x - PanelPosition.x,
                                 y |-> h.point.y - PanelPosition.y])
        /\ h.index = 0

====
